---- MODULE Spec2Model ----
(***************************************************************************)
(* Model of the zenstack-graphql-hide-relations plugin (src/src/index.ts). *)
(*                                                                         *)
(* The plugin walks the fields of the data models of a ZenStack schema and *)
(* appends a "/// @HideField(...)" comment to a field according to its     *)
(* @graphql.show() / @graphql.hide() attribute, or by default when the     *)
(* field is a relation.  The state is one field of one data model (the     *)
(* loop body of the plugin touches nothing but the field it visits and the *)
(* three summary counters), the console, and the locals of the last pass.  *)
(* Strings are TLA+ strings, built and searched as the code does.          *)
(***************************************************************************)
EXTENDS Integers, Sequences, FiniteSets, TLC

(* ---------------------------- bounds ----------------------------------- *)

\* largest number of arguments of a show or hide attribute
MaxArgs == 4

\* largest number of arguments, of the two attributes together, on a field
\* that carries both a show and a hide attribute
MaxArgsBoth == 2

\* number of plugin passes run over the schema
MaxPasses == 2

(* ------------------------- JavaScript values --------------------------- *)

\* null, as returned by the compilers and parsers
NULL == [null |-> TRUE]

\* the JavaScript value true / false / the string 'true', tagged by type
JSTrue == "boolean:true"
JSFalse == "boolean:false"
JSStringTrue == "string:true"

\* String.prototype.includes
Includes(s, sub) ==
  \E i \in 1..(Len(s) - Len(sub) + 1) : SubSeq(s, i, i + Len(sub) - 1) = sub

\* Array.prototype.includes
ArrIncludes(arr, x) == \E i \in 1..Len(arr) : arr[i] = x

\* Array.prototype.join
RECURSIVE Join(_, _)
Join(arr, sep) ==
  IF Len(arr) = 0 THEN ""
  ELSE IF Len(arr) = 1 THEN arr[1]
  ELSE arr[1] \o sep \o Join(Tail(arr), sep)

\* template rendering of a boolean
BoolStr(b) == IF b THEN "true" ELSE "false"

(* ------------------------------ inputs --------------------------------- *)

\* argument names met in an attribute: the four contexts and an unknown one
ArgNames == <<"query", "read", "create", "update", "bogus">>

TrueLit == [type |-> "BooleanLiteral", value |-> JSTrue]
FalseLit == [type |-> "BooleanLiteral", value |-> JSFalse]
StringLit == [type |-> "StringLiteral", value |-> JSStringTrue]

ArgValues == {TrueLit, FalseLit, StringLit}

\* the elements of a set of indices, in increasing order
RECURSIVE SortedSeq(_)
SortedSeq(S) ==
  IF S = {} THEN <<>>
  ELSE LET m == CHOOSE x \in S : \A y \in S : x <= y
       IN <<m>> \o SortedSeq(S \ {m})

\* argument lists of at most n arguments, names distinct, in ArgNames order
ArgLists(n) ==
  UNION { { [i \in 1..Cardinality(S) |->
               [name |-> ArgNames[SortedSeq(S)[i]], value |-> v[SortedSeq(S)[i]]]]
            : v \in { w \in [S -> ArgValues] : 5 \in S => w[5] = TrueLit } }
          : S \in { T \in SUBSET (1..5) : Cardinality(T) <= n } }

ShowName == "@graphql.show"
HideName == "@graphql.hide"

\* attribute lists of a field: none, show, hide, or both in either order
AttributeLists ==
  {<<>>}
  \cup { <<[name |-> n, args |-> a]>> : n \in {ShowName, HideName}, a \in ArgLists(MaxArgs) }
  \cup UNION { { <<[name |-> p[1], args |-> a], [name |-> p[2], args |-> b]>>
                 : b \in ArgLists(MaxArgsBoth - Len(a)) }
               : p \in {<<ShowName, HideName>>, <<HideName, ShowName>>},
                 a \in ArgLists(MaxArgsBoth) }

\* comment lists a field may carry before the first pass
InitialComments ==
  { <<>>,
    <<"/// The owner of the record">>,
    <<"/// The owner of the record", "/// @HideField({ output: true })">> }

VARIABLES field, passes, console, hideFieldParams,
          shownRelations, hiddenRelations, hiddenFields

vars == <<field, passes, console, hideFieldParams,
          shownRelations, hiddenRelations, hiddenFields>>

(* ---------------------- contextsToHideFieldPattern --------------------- *)

\* [...new Set(contexts)]: duplicates dropped, first occurrences kept
RECURSIVE Unique(_)
Unique(arr) ==
  IF Len(arr) = 0 THEN <<>>
  ELSE LET front == Unique(SubSeq(arr, 1, Len(arr) - 1))
           last == arr[Len(arr)]
       IN IF ArrIncludes(front, last) THEN front ELSE Append(front, last)

NotRead(c) == c # "read"
NotQuery(c) == c # "query"

\* a slip that drops "query" where the code drops the redundant "read"
FilterQuery(contexts) == SelectSeq(contexts, NotQuery)

\* contexts.filter((c) => c !== "read")
FilterRead(contexts) == SelectSeq(contexts, NotRead)

\* a pattern list rendered without the @( ) wrapper
MatchBare(patterns) ==
  IF Len(patterns) = 1 THEN [match |-> patterns[1]]
  ELSE [match |-> Join(patterns, "|")]

\* a slip that wraps a single pattern as well
MatchAlwaysWrapped(patterns) == [match |-> "@(" \o Join(patterns, "|") \o ")"]

\* one pattern bare, several as the outmatch alternation @(p1|p2|...)
MatchOf(patterns) ==
  IF Len(patterns) = 1 THEN [match |-> patterns[1]]
  ELSE [match |-> "@(" \o Join(patterns, "|") \o ")"]

WherePattern == "*(Where*Input)"
OrderByPattern == "*(*OrderBy*Input)"
CreatePattern == "*(*Create*Input)"
UpdatePattern == "*(*Update*Input)"
OutputPattern == "(Output)"

\* the glob fragment that names a generated surface in a match pattern
SurfacePattern(surface) ==
  CASE surface = "Output" -> OutputPattern
    [] surface = "Where" -> WherePattern
    [] surface = "OrderBy" -> OrderByPattern
    [] surface = "Create" -> CreatePattern
    [] surface = "Update" -> UpdatePattern

\* HideFieldParams read as the generator reads it: match hides the field in
\* the types the pattern names, input / output hide it in all input types /
\* in the output types; null hides nothing
Excludes(params, surface) ==
  IF "match" \in DOMAIN params
    THEN Includes(params.match, SurfacePattern(surface))
  ELSE IF surface = "Output"
    THEN "output" \in DOMAIN params /\ params.output
  ELSE "input" \in DOMAIN params /\ params.input

RECURSIVE contextsToHideFieldPattern(_)
contextsToHideFieldPattern(contexts) ==
  LET uniqueContexts == Unique(contexts)
      hasQuery == ArrIncludes(uniqueContexts, "query")
      hasRead == ArrIncludes(uniqueContexts, "read")
      hasCreate == ArrIncludes(uniqueContexts, "create")
      hasUpdate == ArrIncludes(uniqueContexts, "update")
      hideOutput == ~hasQuery /\ ~hasRead
      patterns ==
        (IF ~hasQuery /\ hasRead THEN <<WherePattern>> ELSE <<>>)
        \o (IF ~hasCreate THEN <<CreatePattern>> ELSE <<>>)
        \o (IF ~hasUpdate THEN <<UpdatePattern>> ELSE <<>>)
      inputPatterns ==
        <<CreatePattern, UpdatePattern>>
        \o (IF hasRead /\ ~hasQuery THEN <<WherePattern>> ELSE <<>>)
  IN IF hasQuery /\ hasRead
       THEN contextsToHideFieldPattern(FilterRead(uniqueContexts))
     ELSE IF (hasQuery \/ hasRead) /\ hasCreate /\ hasUpdate
             /\ ~ArrIncludes(patterns, WherePattern)
       THEN NULL
     ELSE IF hideOutput /\ hasCreate /\ hasUpdate
       THEN [input |-> FALSE, output |-> TRUE]
     ELSE IF (hasQuery \/ hasRead) /\ ~hasCreate /\ ~hasUpdate
       THEN MatchOf(inputPatterns)
     ELSE IF Len(patterns) > 0
       THEN MatchOf(patterns)
     ELSE NULL

(* -------------------------- parseShowContexts -------------------------- *)

validContexts == <<"query", "read", "create", "update">>

\* the console.warn of an argument name outside validContexts
UnknownParameter(attrName, name) ==
  [warning |-> "Unknown parameter", attribute |-> attrName, parameter |-> name]

\* the console.warn of a hide attribute whose arguments name no context
WithoutContexts == [warning |-> "@graphql.hide() without contexts"]

\* (value.$type === "BooleanLiteral" || value.$type === "LiteralExpr")
\*   && value.value === true
IsTrueFlag(value) ==
  /\ value.type \in {"BooleanLiteral", "LiteralExpr"}
  /\ value.value = JSTrue

\* a slip that warns of an unknown name but forgets the continue
RECURSIVE ArgLoopNoContinue(_, _)
ArgLoopNoContinue(args, attrName) ==
  IF Len(args) = 0 THEN [contexts |-> <<>>, warnings |-> <<>>]
  ELSE LET rest == ArgLoopNoContinue(SubSeq(args, 1, Len(args) - 1), attrName)
           arg == args[Len(args)]
           warned == IF ~ArrIncludes(validContexts, arg.name)
                       THEN Append(rest.warnings, UnknownParameter(attrName, arg.name))
                     ELSE rest.warnings
       IN IF IsTrueFlag(arg.value)
            THEN [contexts |-> Append(rest.contexts, arg.name), warnings |-> warned]
          ELSE [contexts |-> rest.contexts, warnings |-> warned]

\* the for loop over attr.args: the contexts pushed and the warnings printed
RECURSIVE ArgLoop(_, _)
ArgLoop(args, attrName) ==
  IF Len(args) = 0 THEN [contexts |-> <<>>, warnings |-> <<>>]
  ELSE LET rest == ArgLoop(SubSeq(args, 1, Len(args) - 1), attrName)
           arg == args[Len(args)]
       IN IF ~ArrIncludes(validContexts, arg.name)
            THEN [contexts |-> rest.contexts,
                  warnings |-> Append(rest.warnings, UnknownParameter(attrName, arg.name))]
          ELSE IF IsTrueFlag(arg.value)
            THEN [contexts |-> Append(rest.contexts, arg.name), warnings |-> rest.warnings]
          ELSE rest

\* a slip that hands the (possibly empty) context list on instead of null
parseShowContextsNeverNull(attr) ==
  LET loop == ArgLoop(attr.args, ShowName)
  IN [result |-> [contexts |-> loop.contexts], warnings |-> loop.warnings]

\* result: the contexts ([contexts |-> list] or NULL) and the warnings printed
parseShowContexts(attr) ==
  IF Len(attr.args) = 0 THEN [result |-> NULL, warnings |-> <<>>]
  ELSE LET loop == ArgLoop(attr.args, ShowName)
       IN [result |-> IF Len(loop.contexts) > 0 THEN [contexts |-> loop.contexts] ELSE NULL,
           warnings |-> loop.warnings]

(* -------------------------- parseHideContexts -------------------------- *)

\* filteredContexts.map((c) => ({name: c, value: {$type: "BooleanLiteral", value: true}}))
TrueArgs(contexts) == [i \in 1..Len(contexts) |-> [name |-> contexts[i], value |-> TrueLit]]

\* a slip that filters the Where fragment out but keeps the OrderBy fragment
NotFilter(p) == ~Includes(p, "Where")

NotFilterOrSort(p) == ~Includes(p, "Where") /\ ~Includes(p, "OrderBy")

\* result: the @HideField params or NULL, and the warnings printed
RECURSIVE parseHideContexts(_)
parseHideContexts(attr) ==
  IF Len(attr.args) = 0
    THEN [result |-> [input |-> TRUE, output |-> TRUE], warnings |-> <<>>]
  ELSE
    LET loop == ArgLoop(attr.args, HideName)
        hiddenContexts == loop.contexts
        hasQuery == ArrIncludes(hiddenContexts, "query")
        hasRead == ArrIncludes(hiddenContexts, "read")
        hasCreate == ArrIncludes(hiddenContexts, "create")
        hasUpdate == ArrIncludes(hiddenContexts, "update")
        hideOutput == hasQuery \/ (hasRead /\ ~hasQuery)
        patterns ==
          (IF hasQuery THEN <<WherePattern, OrderByPattern>> ELSE <<>>)
          \o (IF hasCreate THEN <<CreatePattern>> ELSE <<>>)
          \o (IF hasUpdate THEN <<UpdatePattern>> ELSE <<>>)
        filteredPatterns == SelectSeq(patterns, NotFilterOrSort)
        combinedPatterns == Append(filteredPatterns, OutputPattern)
        inner == parseHideContexts([args |-> TrueArgs(FilterRead(hiddenContexts))])
        params ==
          IF hideOutput /\ hasCreate /\ hasUpdate /\ ArrIncludes(patterns, WherePattern)
            THEN [input |-> TRUE, output |-> TRUE]
          ELSE IF hideOutput /\ ~hasCreate /\ ~hasUpdate
            THEN [input |-> FALSE, output |-> TRUE]
          ELSE IF ~hideOutput /\ Len(patterns) > 0
            THEN MatchOf(patterns)
          ELSE IF hideOutput /\ Len(patterns) > 0
            THEN IF Len(filteredPatterns) > 0
                   THEN MatchOf(combinedPatterns)
                 ELSE [input |-> FALSE, output |-> TRUE]
          ELSE NULL
    IN IF Len(hiddenContexts) = 0
         THEN [result |-> NULL, warnings |-> loop.warnings]
       ELSE IF hasQuery /\ hasRead
         THEN [result |-> inner.result, warnings |-> loop.warnings \o inner.warnings]
       ELSE [result |-> params, warnings |-> loop.warnings]

(* ----------------------- generateHideFieldComment ---------------------- *)

\* a slip that joins the parts with "," for ", "
generateHideFieldCommentNoSpace(params) ==
  IF "match" \in DOMAIN params /\ params.match # ""
    THEN "/// @HideField({ match: '" \o params.match \o "' })"
  ELSE LET parts ==
             (IF "input" \in DOMAIN params
                THEN <<"input: " \o BoolStr(params.input)>> ELSE <<>>)
             \o (IF "output" \in DOMAIN params
                   THEN <<"output: " \o BoolStr(params.output)>> ELSE <<>>)
       IN "/// @HideField({ " \o Join(parts, ",") \o " })"

generateHideFieldComment(params) ==
  IF "match" \in DOMAIN params /\ params.match # ""
    THEN "/// @HideField({ match: '" \o params.match \o "' })"
  ELSE IF "input" \in DOMAIN params \/ "output" \in DOMAIN params
    THEN LET parts ==
               (IF "input" \in DOMAIN params
                  THEN <<"input: " \o BoolStr(params.input)>> ELSE <<>>)
               \o (IF "output" \in DOMAIN params
                     THEN <<"output: " \o BoolStr(params.output)>> ELSE <<>>)
         IN "/// @HideField({ " \o Join(parts, ", ") \o " })"
  ELSE "/// @HideField({ input: true, output: true })"

(* -------------------------- addHideFieldComment ------------------------ *)

HideFieldMarker == "@HideField"

\* field.comments.some((comment) => comment.includes("@HideField"))
hasHideFieldComment(comments) ==
  \E i \in 1..Len(comments) : Includes(comments[i], HideFieldMarker)

\* a slip that pushes the comment without looking for one already there
addHideFieldCommentUnchecked(comments, hideFieldParams_) ==
  Append(comments, generateHideFieldComment(hideFieldParams_))

\* a slip that assigns the list where the code pushes onto it
addHideFieldCommentReplacing(comments, hideFieldParams_) ==
  IF ~hasHideFieldComment(comments)
    THEN <<generateHideFieldComment(hideFieldParams_)>>
  ELSE comments

\* a slip that puts the comment in front of the list (unshift for push)
addHideFieldCommentInFront(comments, hideFieldParams_) ==
  IF ~hasHideFieldComment(comments)
    THEN <<generateHideFieldComment(hideFieldParams_)>> \o comments
  ELSE comments

\* the comment list of the field after the call
addHideFieldComment(comments, hideFieldParams_) ==
  LET hideFieldComment == generateHideFieldComment(hideFieldParams_)
  IN IF ~hasHideFieldComment(comments)
       THEN Append(comments, hideFieldComment)
     ELSE comments

(* ------------------------------ findAttribute -------------------------- *)

\* the first attribute named name or "@" + name, NULL (undefined) if none
findAttribute(f, name) ==
  LET hits == { i \in 1..Len(f.attributes) :
                  f.attributes[i].name = name \/ f.attributes[i].name = "@" \o name }
  IN IF hits = {} THEN NULL
     ELSE f.attributes[CHOOSE i \in hits : \A j \in hits : i <= j]

(* --------------------------------- plugin ------------------------------ *)

\* a local of the plugin that no statement of the pass has assigned
UNDEFINED == [undefined |-> TRUE]

\* a slip that looks for the hide attribute before the show attribute
ProcessFieldHideFirst(f) ==
  LET isRelation == f.isRelation
      showAttr == findAttribute(f, "graphql.show")
      hideAttr == findAttribute(f, "graphql.hide")
      show == parseShowContexts(showAttr)
      showParams == contextsToHideFieldPattern(show.result.contexts)
      hide == parseHideContexts(hideAttr)
      defaultParams == [input |-> TRUE, output |-> TRUE]
      counted == IF isRelation THEN 1 ELSE 0
  IN IF hideAttr # NULL
       THEN IF hide.result = NULL
              THEN [comments |-> f.comments, hideFieldParams |-> NULL,
                    warnings |-> Append(hide.warnings, WithoutContexts),
                    shownRelations |-> 0, hiddenRelations |-> 0, hiddenFields |-> 0]
            ELSE [comments |-> addHideFieldComment(f.comments, hide.result),
                  hideFieldParams |-> hide.result,
                  warnings |-> hide.warnings,
                  shownRelations |-> 0, hiddenRelations |-> 0,
                  hiddenFields |-> 1 - counted]
     ELSE IF showAttr # NULL
       THEN IF show.result = NULL
              THEN [comments |-> f.comments, hideFieldParams |-> UNDEFINED,
                    warnings |-> show.warnings,
                    shownRelations |-> counted, hiddenRelations |-> 0, hiddenFields |-> 0]
            ELSE IF showParams = NULL
              THEN [comments |-> f.comments, hideFieldParams |-> NULL,
                    warnings |-> show.warnings,
                    shownRelations |-> counted, hiddenRelations |-> 0, hiddenFields |-> 0]
            ELSE [comments |-> addHideFieldComment(f.comments, showParams),
                  hideFieldParams |-> showParams,
                  warnings |-> show.warnings,
                  shownRelations |-> counted, hiddenRelations |-> 0, hiddenFields |-> 0]
     ELSE IF isRelation
       THEN [comments |-> addHideFieldComment(f.comments, defaultParams),
             hideFieldParams |-> defaultParams,
             warnings |-> <<>>,
             shownRelations |-> 0, hiddenRelations |-> 1, hiddenFields |-> 0]
     ELSE [comments |-> f.comments, hideFieldParams |-> UNDEFINED,
           warnings |-> <<>>,
           shownRelations |-> 0, hiddenRelations |-> 0, hiddenFields |-> 0]

\* the body of the loop over modelDecl.fields, for the field f: the comment
\* list it leaves, the directive it compiled, the warnings it printed and
\* what it added to the three counters
ProcessField(f) ==
  LET isRelation == f.isRelation
      showAttr == findAttribute(f, "graphql.show")
      hideAttr == findAttribute(f, "graphql.hide")
      show == parseShowContexts(showAttr)
      showParams == contextsToHideFieldPattern(show.result.contexts)
      hide == parseHideContexts(hideAttr)
      defaultParams == [input |-> TRUE, output |-> TRUE]
      counted == IF isRelation THEN 1 ELSE 0
  IN IF showAttr # NULL
       THEN IF show.result = NULL
              THEN [comments |-> f.comments, hideFieldParams |-> UNDEFINED,
                    warnings |-> show.warnings,
                    shownRelations |-> counted, hiddenRelations |-> 0, hiddenFields |-> 0]
            ELSE IF showParams = NULL
              THEN [comments |-> f.comments, hideFieldParams |-> NULL,
                    warnings |-> show.warnings,
                    shownRelations |-> counted, hiddenRelations |-> 0, hiddenFields |-> 0]
            ELSE [comments |-> addHideFieldComment(f.comments, showParams),
                  hideFieldParams |-> showParams,
                  warnings |-> show.warnings,
                  shownRelations |-> counted, hiddenRelations |-> 0, hiddenFields |-> 0]
     ELSE IF hideAttr # NULL
       THEN IF hide.result = NULL
              THEN [comments |-> f.comments, hideFieldParams |-> NULL,
                    warnings |-> Append(hide.warnings, WithoutContexts),
                    shownRelations |-> 0, hiddenRelations |-> 0, hiddenFields |-> 0]
            ELSE [comments |-> addHideFieldComment(f.comments, hide.result),
                  hideFieldParams |-> hide.result,
                  warnings |-> hide.warnings,
                  shownRelations |-> 0, hiddenRelations |-> 0,
                  hiddenFields |-> 1 - counted]
     ELSE IF isRelation
       THEN [comments |-> addHideFieldComment(f.comments, defaultParams),
             hideFieldParams |-> defaultParams,
             warnings |-> <<>>,
             shownRelations |-> 0, hiddenRelations |-> 1, hiddenFields |-> 0]
     ELSE [comments |-> f.comments, hideFieldParams |-> UNDEFINED,
           warnings |-> <<>>,
           shownRelations |-> 0, hiddenRelations |-> 0, hiddenFields |-> 0]

\* the console.log of the summary, printed when a field was counted
Summary(totalProcessed) ==
  IF totalProcessed > 0
    THEN <<[log |-> "Processed", fields |-> totalProcessed]>>
  ELSE <<>>

Init ==
  /\ field \in [isRelation : BOOLEAN, attributes : AttributeLists,
                comments : InitialComments]
  /\ passes = 0
  /\ console = <<>>
  /\ hideFieldParams = UNDEFINED
  /\ shownRelations = 0
  /\ hiddenRelations = 0
  /\ hiddenFields = 0

\* one run of the plugin over the schema
Plugin ==
  /\ passes < MaxPasses
  /\ LET r == ProcessField(field)
     IN /\ field' = [field EXCEPT !.comments = r.comments]
        /\ hideFieldParams' = r.hideFieldParams
        /\ shownRelations' = r.shownRelations
        /\ hiddenRelations' = r.hiddenRelations
        /\ hiddenFields' = r.hiddenFields
        /\ console' = console \o r.warnings
                      \o Summary(r.shownRelations + r.hiddenRelations + r.hiddenFields)
  /\ passes' = passes + 1

Next == Plugin

Spec == Init /\ [][Next]_vars

(* ======================= properties of the plugin ====================== *)

\* the attribute the pass acts on: show is looked up first, then hide
ShowAttr == findAttribute(field, "graphql.show")
HideAttr == findAttribute(field, "graphql.hide")
ShowActive == ShowAttr # NULL
HideActive == ShowAttr = NULL /\ HideAttr # NULL
NoAttribute == ShowAttr = NULL /\ HideAttr = NULL

\* the contexts an attribute's arguments set to the boolean literal true
TrueFlags(attr) ==
  { c \in {"query", "read", "create", "update"} :
      \E i \in 1..Len(attr.args) :
        attr.args[i].name = c /\ attr.args[i].value = TrueLit }

\* a set of contexts as a list, and as the argument list of an attribute
ContextList(S) == SelectSeq(validContexts, LAMBDA c : c \in S)
FlagArgs(S) ==
  [i \in 1..Len(ContextList(S)) |-> [name |-> ContextList(S)[i], value |-> TrueLit]]

HideEverywhereComment == "/// @HideField({ input: true, output: true })"

\* number of comments of a list that carry the @HideField marker
MarkerCount(comments) ==
  Cardinality({ i \in 1..Len(comments) : Includes(comments[i], "@HideField") })

\* C1: a show or hide attribute whose true flags contain both query and read
\* compiles to the directive of the same flags with read removed.
C1_QuerySubsumesRead ==
  passes >= 1 =>
    /\ (ShowActive /\ {"query", "read"} \subseteq TrueFlags(ShowAttr)) =>
         hideFieldParams
           = contextsToHideFieldPattern(ContextList(TrueFlags(ShowAttr) \ {"read"}))
    /\ (HideActive /\ {"query", "read"} \subseteq TrueFlags(HideAttr)) =>
         hideFieldParams
           = parseHideContexts([args |-> FlagArgs(TrueFlags(HideAttr) \ {"read"})]).result

C1_Witness ==
  /\ passes >= 1
  /\ HideActive
  /\ TrueFlags(HideAttr) = {"query", "read", "create"}
  /\ hideFieldParams = [match |-> "@(*(*Create*Input)|(Output))"]

\* C2: a pass over a field with no show or hide attribute and no @HideField
\* comment appends the hide-everywhere comment if the field is a relation and
\* leaves the comment list alone if it is not.
C2_DefaultClassification ==
  [][(NoAttribute /\ MarkerCount(field.comments) = 0) =>
       field'.comments = IF field.isRelation
                           THEN Append(field.comments, HideEverywhereComment)
                         ELSE field.comments]_vars

C2_Witness ==
  /\ passes >= 1
  /\ NoAttribute
  /\ field.isRelation
  /\ field.comments = <<"/// The owner of the record", HideEverywhereComment>>

\* C3: a second (third, ...) pass leaves the comment list of the first pass
\* unchanged, and no pass takes a field to more than one @HideField comment.
C3_Idempotence ==
  [][/\ passes >= 1 => field'.comments = field.comments
     /\ MarkerCount(field.comments) <= 1 => MarkerCount(field'.comments) <= 1]_vars

C3_Witness ==
  /\ passes >= 2
  /\ ShowActive
  /\ hideFieldParams = [match |-> "*(*Update*Input)"]
  /\ field.comments = <<"/// The owner of the record",
                        "/// @HideField({ match: '*(*Update*Input)' })">>

\* number of "without contexts" warnings on the console
NoEffectCount(out) ==
  Cardinality({ i \in 1..Len(out) : out[i] = WithoutContexts })

\* the comment lists a pass can leave when it attaches comment to a field
\* that had no @HideField comment, and leaves a field that had one alone
AttachedOnce(comment) ==
  { IF MarkerCount(c0) = 0 THEN Append(c0, comment) ELSE c0 : c0 \in InitialComments }

\* C4: the directive compiled from a non-empty show set excludes the field
\* from every surface whose context is not in the set: the output when
\* neither query nor read is, the filters when query is not, the create
\* (update) forms when create (update) is not.
C4_ShowExcludesAbsent ==
  (passes >= 1 /\ ShowActive /\ TrueFlags(ShowAttr) # {}) =>
    LET shown == TrueFlags(ShowAttr)
    IN /\ ("query" \notin shown /\ "read" \notin shown) => Excludes(hideFieldParams, "Output")
       /\ "query" \notin shown => Excludes(hideFieldParams, "Where")
       /\ "create" \notin shown => Excludes(hideFieldParams, "Create")
       /\ "update" \notin shown => Excludes(hideFieldParams, "Update")

\* C5: the directive compiled from a hide set that contains query excludes
\* the field from the Where inputs, the OrderBy inputs and the output, and
\* hide(query:true) does not compile to the directive of hide(read:true).
C5_HideQueryExcludesFilters ==
  (passes >= 1 /\ HideActive /\ "query" \in TrueFlags(HideAttr)) =>
    /\ Excludes(hideFieldParams, "Output")
    /\ Excludes(hideFieldParams, "Where")
    /\ Excludes(hideFieldParams, "OrderBy")
    /\ TrueFlags(HideAttr) = {"query"} =>
         hideFieldParams # parseHideContexts([args |-> FlagArgs({"read"})]).result

\* C6: a pass over a field whose hide attribute has arguments none of which
\* names a context prints one "without contexts" warning, compiles no
\* directive, and then treats the field by default: a relation gets the
\* hide-everywhere comment, a non-relation keeps its comment list.
C6_VacuousHideThenDefault ==
  [][(/\ HideActive
      /\ Len(HideAttr.args) >= 1
      /\ TrueFlags(HideAttr) = {}
      /\ MarkerCount(field.comments) = 0) =>
       /\ NoEffectCount(console') = NoEffectCount(console) + 1
       /\ hideFieldParams' = NULL
       /\ field'.comments = IF field.isRelation
                              THEN Append(field.comments, HideEverywhereComment)
                            ELSE field.comments]_vars

\* C7: show(read:true) compiles to the pattern
\* @(*(Where*Input)|*(*Create*Input)|*(*Update*Input)), byte for byte.
C7_ShowReadPattern ==
  (passes >= 1 /\ ShowActive /\ TrueFlags(ShowAttr) = {"read"}) =>
    hideFieldParams = [match |-> "@(*(Where*Input)|*(*Create*Input)|*(*Update*Input))"]

ShowQueryComment == "/// @HideField({ match: '@(*(*Create*Input)|*(*Update*Input))' })"

C9_ShowEverywhere ==
  [][(/\ ShowActive
      /\ \/ Len(ShowAttr.args) = 0
         \/ TrueFlags(ShowAttr) \in {{"query", "read", "create", "update"},
                                     {"query", "create", "update"}}) =>
       /\ hideFieldParams' \in {NULL, UNDEFINED}
       /\ field'.comments = field.comments]_vars

C9_Witness ==
  /\ passes >= 1
  /\ ShowActive
  /\ TrueFlags(ShowAttr) = {"query", "read", "create", "update"}
  /\ field.isRelation
  /\ field.comments = <<>>
  /\ hideFieldParams = NULL
  /\ shownRelations = 1

\* C10: hide() without arguments compiles to input: true, output: true and
\* the comment attached is the hide-everywhere comment, relation or not.
C10_HideEverywhere ==
  (passes >= 1 /\ HideActive /\ Len(HideAttr.args) = 0) =>
    /\ hideFieldParams = [input |-> TRUE, output |-> TRUE]
    /\ field.comments \in AttachedOnce("/// @HideField({ input: true, output: true })")

C10_Witness ==
  /\ passes >= 1
  /\ HideActive
  /\ Len(HideAttr.args) = 0
  /\ ~field.isRelation
  /\ field.comments = <<"/// @HideField({ input: true, output: true })">>
  /\ hiddenFields = 1

\* an attribute without its arguments of unknown name
KnownArgs(attr) ==
  [name |-> attr.name,
   args |-> SelectSeq(attr.args, LAMBDA a : a.name \in {"query", "read", "create", "update"})]

\* number of arguments of unknown name of an attribute
UnknownCount(attr) ==
  Cardinality({ i \in 1..Len(attr.args) :
                  attr.args[i].name \notin {"query", "read", "create", "update"} })

\* number of "Unknown parameter" warnings on the console
UnknownWarningCount(out) ==
  Cardinality({ i \in 1..Len(out) :
                  "warning" \in DOMAIN out[i] /\ out[i].warning = "Unknown parameter" })

\* the directive the plugin holds after a show attribute: none when the
\* parser returns null, else what the compiler returns
ShowDirective(attr) ==
  IF parseShowContexts(attr).result = NULL THEN UNDEFINED
  ELSE contextsToHideFieldPattern(parseShowContexts(attr).result.contexts)

\* C11 (as claimed): a show or hide attribute with an argument of unknown
\* name compiles to the directive of the same attribute without that
\* argument, and each pass prints one warning per unknown argument.
C11_UnknownNameDropped ==
  passes >= 1 =>
    /\ (ShowActive /\ UnknownCount(ShowAttr) >= 1) =>
         /\ hideFieldParams = ShowDirective(KnownArgs(ShowAttr))
         /\ UnknownWarningCount(console) = passes * UnknownCount(ShowAttr)
    /\ (HideActive /\ UnknownCount(HideAttr) >= 1) =>
         /\ hideFieldParams = parseHideContexts(KnownArgs(HideAttr)).result
         /\ UnknownWarningCount(console) = passes * UnknownCount(HideAttr)

\* C11 (amended): the same, except that a hide attribute whose only
\* arguments are of unknown name compiles to no directive, where hide()
\* without arguments compiles to input: true, output: true.
C11_UnknownNameDroppedUnlessAlone ==
  passes >= 1 =>
    /\ (ShowActive /\ UnknownCount(ShowAttr) >= 1) =>
         /\ hideFieldParams = ShowDirective(KnownArgs(ShowAttr))
         /\ UnknownWarningCount(console) = passes * UnknownCount(ShowAttr)
    /\ (HideActive /\ UnknownCount(HideAttr) >= 1) =>
         /\ hideFieldParams =
              IF Len(KnownArgs(HideAttr).args) >= 1
                THEN parseHideContexts(KnownArgs(HideAttr)).result
              ELSE NULL
         /\ UnknownWarningCount(console) = passes * UnknownCount(HideAttr)

C11_Witness ==
  /\ passes = 1
  /\ HideActive
  /\ UnknownCount(HideAttr) = 1
  /\ TrueFlags(HideAttr) = {"query", "read", "update"}
  /\ hideFieldParams = [match |-> "@(*(*Update*Input)|(Output))"]
  /\ UnknownWarningCount(console) = 1

MatchCommentHead == "/// @HideField({ match: '"
MatchCommentTail == "' })"

\* the fixed shapes of a generated comment: a match pattern, or input and
\* output (one or both) with boolean values
HideFieldShape(c) ==
  \/ /\ Len(c) > Len(MatchCommentHead) + Len(MatchCommentTail)
     /\ SubSeq(c, 1, Len(MatchCommentHead)) = MatchCommentHead
     /\ SubSeq(c, Len(c) - Len(MatchCommentTail) + 1, Len(c)) = MatchCommentTail
  \/ \E a, b \in {"true", "false"} :
       c \in { "/// @HideField({ input: " \o a \o ", output: " \o b \o " })",
               "/// @HideField({ input: " \o a \o " })",
               "/// @HideField({ output: " \o b \o " })" }

\* C12: a pass changes nothing of a field but its comment list, to which it
\* appends at most one comment, of a fixed @HideField shape, after the
\* comments already there; a field with an @HideField comment is unchanged.
C12_AppendOnlyFrame ==
  [][/\ field'.isRelation = field.isRelation
     /\ field'.attributes = field.attributes
     /\ \/ field'.comments = field.comments
        \/ /\ Len(field'.comments) = Len(field.comments) + 1
           /\ SubSeq(field'.comments, 1, Len(field.comments)) = field.comments
           /\ HideFieldShape(field'.comments[Len(field'.comments)])
     /\ MarkerCount(field.comments) >= 1 => field'.comments = field.comments]_vars

C12_Witness ==
  /\ passes >= 1
  /\ HideActive
  /\ field.comments = <<"/// The owner of the record",
                        "/// @HideField({ input: false, output: true })">>

\* the show and the hide attribute of the field, found by their names
TheShow == CHOOSE i \in 1..Len(field.attributes) : field.attributes[i].name = ShowName
TheHide == CHOOSE i \in 1..Len(field.attributes) : field.attributes[i].name = HideName
BothAttributes ==
  /\ \E i \in 1..Len(field.attributes) : field.attributes[i].name = ShowName
  /\ \E i \in 1..Len(field.attributes) : field.attributes[i].name = HideName

\* the field with its show attribute alone
ShowOnly == [field EXCEPT !.attributes = <<field.attributes[TheShow]>>]

\* number of warnings on the console that a hide attribute caused
HideWarningCount(out) ==
  Cardinality({ i \in 1..Len(out) :
                  \/ out[i] = WithoutContexts
                  \/ /\ "attribute" \in DOMAIN out[i]
                     /\ out[i].attribute = HideName })

\* C13: a pass over a field with both a show and a hide attribute, in
\* either order, leaves the comment list and the directive it would leave
\* with the show attribute alone, and nothing of the hide attribute is
\* compiled: no warning of it is printed and no hidden field is counted.
C13_ShowWinsOverHide ==
  [][BothAttributes =>
       /\ field'.comments = ProcessField(ShowOnly).comments
       /\ hideFieldParams' = ProcessField(ShowOnly).hideFieldParams
       /\ HideWarningCount(console') = HideWarningCount(console)
       /\ hiddenFields' = 0]_vars

C13_Witness ==
  /\ passes >= 1
  /\ BothAttributes
  /\ TheHide < TheShow
  /\ Len(field.attributes[TheShow].args) = 0
  /\ field.attributes[TheHide].args = <<[name |-> "bogus", value |-> TrueLit]>>
  /\ field.isRelation
  /\ field.comments = <<>>
  /\ console = <<[log |-> "Processed", fields |-> 1]>>

ShowFragments == {CreatePattern, UpdatePattern, WherePattern, OrderByPattern}
HideFragments == ShowFragments \cup {OutputPattern}

\* the lists of two or more distinct fragments of a set
DistinctLists(F) ==
  { q \in UNION { [1..n -> F] : n \in 2..Cardinality(F) } :
      \A i, j \in 1..Len(q) : i # j => q[i] # q[j] }

\* the match expressions of the external syntax over the fragments F: one
\* fragment bare, or two or more distinct ones as @(f1|f2|...)
WellFormedMatches(F) ==
  F \cup { "@(" \o Join(q, "|") \o ")" : q \in DistinctLists(F) }

ShowMatches == WellFormedMatches(ShowFragments)
HideMatches == WellFormedMatches(HideFragments)

\* null, input and output both defined, or a well-formed match
WellFormedDirective(params, matches) ==
  \/ params = NULL
  \/ /\ DOMAIN params = {"input", "output"}
     /\ params.input \in BOOLEAN
     /\ params.output \in BOOLEAN
  \/ /\ DOMAIN params = {"match"}
     /\ params.match \in matches

MixedCase(hidden) ==
  /\ "query" \in hidden \/ "read" \in hidden
  /\ "create" \in hidden \/ "update" \in hidden
  /\ ~({"query", "create", "update"} \subseteq hidden)

C16_HideEverywhereIffQueryCreateUpdate ==
  (passes >= 1 /\ HideActive /\ Len(HideAttr.args) >= 1) =>
    /\ hideFieldParams = [input |-> TRUE, output |-> TRUE]
         <=> {"query", "create", "update"} \subseteq TrueFlags(HideAttr)
    /\ TrueFlags(HideAttr) = {"read", "create", "update"} =>
         hideFieldParams = [match |-> "@(*(*Create*Input)|*(*Update*Input)|(Output))"]

C16_Witness ==
  /\ passes >= 1
  /\ HideActive
  /\ TrueFlags(HideAttr) = {"query", "read", "create", "update"}
  /\ hideFieldParams = [input |-> TRUE, output |-> TRUE]
  /\ field.comments = <<"/// @HideField({ input: true, output: true })">>

====
